---- MODULE Spec2Model ----
(***************************************************************************)
(* A model of the rendering core of raytracing-in-one-weekend:             *)
(*   src/src/raytracer.rs  Raytracer (render, render_ppm,                  *)
(*                         render_without_bvh, the two parallel pixel      *)
(*                         loops and the ray_color recursion)              *)
(*   src/src/textures.rs   SolidColor and CheckerTexture                   *)
(* Collaborators whose code lies outside these two files (Camera, Bvh,     *)
(* HittableList, Material, the progress bar, the image) are modelled only  *)
(* through the calls raytracer.rs makes on them.                           *)
(***************************************************************************)
EXTENDS Integers, Sequences, FiniteSets, TLC

(***************************************************************************)
(* Bounds of the model.                                                    *)
(***************************************************************************)
MaxWidth == 2
MaxHeight == 2
MaxSamples == 2
MaxDepth == 2
NumThreads == 2
\* the largest buffer of the two-render specification
PairMaxPixels == 2

(***************************************************************************)
(* Machine integers.                                                       *)
(***************************************************************************)
U16Bits == 16

U16Mod == 2 ^ U16Bits

\* u16 subtraction as a release build computes it (wrapping).
Sub16(a, b) == (a - b + U16Mod) % U16Mod

\* u16 multiplication: the outcomes a build can produce. With overflow checks
\* (debug profile) an overflowing product panics, without them it wraps.
Mul16(a, b) ==
    IF a * b < U16Mod
    THEN {[panic |-> FALSE, v |-> a * b]}
    ELSE {[panic |-> TRUE, v |-> 0], [panic |-> FALSE, v |-> (a * b) % U16Mod]}

(***************************************************************************)
(* f32 values, kept exact: a non-negative rational n/d in lowest terms,    *)
(* the square root of one, +infinity or NaN.                               *)
(***************************************************************************)
RECURSIVE Gcd(_, _)
Gcd(a, b) == IF b = 0 THEN a ELSE Gcd(b, a % b)

Fin(n, d) == LET g == Gcd(n, d) IN [k |-> "fin", n |-> n \div g, d |-> d \div g]

NaN == [k |-> "nan", n |-> 0, d |-> 1]

Inf == [k |-> "inf", n |-> 1, d |-> 1]

Zero == Fin(0, 1)

IsZero(x) == x.k = "fin" /\ x.n = 0

FAdd(x, y) ==
    IF x.k = "nan" \/ y.k = "nan" THEN NaN
    ELSE IF x.k = "inf" \/ y.k = "inf" THEN Inf
    ELSE Fin(x.n * y.d + y.n * x.d, x.d * y.d)

\* x - y for finite x >= y (the only subtraction the code makes on colours).
FSub(x, y) == Fin(x.n * y.d - y.n * x.d, x.d * y.d)

FMul(x, y) ==
    IF x.k = "nan" \/ y.k = "nan" THEN NaN
    ELSE IF x.k = "inf" \/ y.k = "inf"
         THEN (IF IsZero(x) \/ IsZero(y) THEN NaN ELSE Inf)
    ELSE Fin(x.n * y.n, x.d * y.d)

\* IEEE division: 0/0 and inf/inf are NaN, x/0 is +inf for x > 0.
FDiv(x, y) ==
    IF x.k = "nan" \/ y.k = "nan" THEN NaN
    ELSE IF IsZero(y) THEN (IF IsZero(x) THEN NaN ELSE Inf)
    ELSE IF y.k = "inf" THEN (IF x.k = "inf" THEN NaN ELSE Zero)
    ELSE IF x.k = "inf" THEN Inf
    ELSE Fin(x.n * y.d, x.d * y.n)

\* Comparison: every comparison with NaN is false.
FLt(x, y) ==
    IF x.k = "nan" \/ y.k = "nan" THEN FALSE
    ELSE IF x.k = "inf" THEN FALSE
    ELSE IF y.k = "inf" THEN TRUE
    ELSE x.n * y.d < y.n * x.d

IsSquare(n) == \E r \in 0..n : r * r = n

Root(n) == CHOOSE r \in 0..n : r * r = n

\* f32::sqrt: sqrt(NaN) = NaN, sqrt(+inf) = +inf; exact where the rational is
\* a square, symbolic otherwise.
FSqrt(x) ==
    IF x.k # "fin" THEN x
    ELSE IF IsSquare(x.n) /\ IsSquare(x.d) THEN Fin(Root(x.n), Root(x.d))
    ELSE [k |-> "sqrt", n |-> x.n, d |-> x.d]

(***************************************************************************)
(* Color: the color![r, g, b] triple with the operations raytracer.rs      *)
(* uses on it.                                                             *)
(***************************************************************************)
color(r, g, b) == <<r, g, b>>

Black == color(Zero, Zero, Zero)

White == color(Fin(1, 1), Fin(1, 1), Fin(1, 1))

SkyBlue == color(Fin(1, 2), Fin(7, 10), Fin(1, 1))

ColorAdd(a, b) == color(FAdd(a[1], b[1]), FAdd(a[2], b[2]), FAdd(a[3], b[3]))

ColorMul(a, b) == color(FMul(a[1], b[1]), FMul(a[2], b[2]), FMul(a[3], b[3]))

ColorScale(t, a) == color(FMul(t, a[1]), FMul(t, a[2]), FMul(t, a[3]))

(***************************************************************************)
(* Ray, Camera, HittableList, Bvh, Material: collaborators of raytracer.rs *)
(* seen through the calls it makes. A ray is an origin class (leaving the  *)
(* camera or leaving a surface) and the signs of its unit direction.       *)
(***************************************************************************)
Signs == {-1, 0, 1}

Rays == [o : {"cam", "surf"}, x : Signs, y : Signs]

Half == Fin(1, 2)

\* The sign class of a camera coordinate in [0, 1] around the image centre.
Side(c) == IF FLt(c, Half) THEN -1 ELSE IF FLt(Half, c) THEN 1 ELSE 0

\* self.camera.get_ray(u, v): a fixed function of (u, v).
get_ray(u, v) == [o |-> "cam", x |-> Side(u), y |-> Side(v)]

\* self.world: a HittableList, described by what its collaborators answer:
\* whether Bvh::new accepts it (every object has a bounding box), the rays
\* HittableList::hit reports a hit for, and the rays the Bvh built from it
\* reports a hit for.
EmptyWorld == [name |-> "empty", bounded |-> TRUE, list |-> {}, tree |-> {}]

\* A scene holding an object without a bounding box (an infinite plane).
PlaneWorld ==
    [name |-> "plane", bounded |-> FALSE,
     list |-> {r \in Rays : r.y = -1}, tree |-> {}]

InsideWorld == [name |-> "inside", bounded |-> TRUE, list |-> Rays, tree |-> Rays]

\* A bounded scene on which the tree and the linear scan disagree (nothing in
\* raytracer.rs makes them agree).
SkewWorld ==
    [name |-> "skew", bounded |-> TRUE,
     list |-> {r \in Rays : r.y <= 0}, tree |-> {r \in Rays : r.y = -1}]

Worlds == {PlaneWorld, InsideWorld, SkewWorld}

\* Bvh::new(self.world.clone(), t0, t1): Ok(bvh) or Err(BoundingBoxError).
BvhNew(w) == IF w.bounded THEN "Ok" ELSE "Err"

\* One value drawn from a random number generator.
Draws == {0, 1}

NoScatter == [some |-> FALSE, ray |-> [o |-> "surf", x |-> 0, y |-> 0], attenuation |-> Black]

\* hit.material().scatter(ray, hit): None (absorbed) or Some((scattered,
\* attenuation)), decided by one random draw of the material.
scatter(ray, draw) ==
    IF draw = 0 THEN NoScatter
    ELSE [some |-> TRUE,
          ray |-> [o |-> "surf", x |-> ray.x, y |-> -ray.y],
          attenuation |-> color(Half, Half, Half)]

\* The background of a ray that hits nothing (raytracer.rs 222-224).
Sky(ray) ==
    LET t == FMul(Half, Fin(ray.y + 1, 1))
    IN  ColorAdd(ColorScale(FSub(Fin(1, 1), t), White), ColorScale(t, SkyBlue))

(***************************************************************************)
(* ray_color. Each operator returns the colour together with what the call *)
(* did: the number of world.hit queries, of scatter calls, and of nested   *)
(* stack frames. `tape` holds the draws the materials consume, in order.   *)
(***************************************************************************)
Leaf(c, h) == [color |-> c, hits |-> h, scatters |-> 0, frames |-> 1]

\* Mutant: the base case tested at the wrong depth.
IsBaseAtOne(depth) == depth = 1

\* raytracer.rs 211, 229: `if depth == 0`
IsBase(depth) == depth = 0

\* Mutant: the recursive call is handed `depth` itself.
BounceSame(depth) == depth

\* raytracer.rs 217, 235: the `depth - 1` handed to the recursive call (u16)
Bounce(depth) == Sub16(depth, 1)

RECURSIVE ray_color_bvh(_, _, _, _)
ray_color_bvh(w, ray, depth, tape) ==
    IF IsBase(depth) THEN Leaf(Black, 0)
    ELSE IF ray \in w.tree
    THEN LET s == scatter(ray, Head(tape))
         IN  IF s.some
             THEN LET sub == ray_color_bvh(w, s.ray, Bounce(depth), Tail(tape))
                  IN  [color |-> ColorMul(s.attenuation, sub.color),
                       hits |-> sub.hits + 1,
                       scatters |-> sub.scatters + 1,
                       frames |-> sub.frames + 1]
             ELSE [color |-> Black, hits |-> 1, scatters |-> 1, frames |-> 1]
    ELSE Leaf(Sky(ray), 1)

RECURSIVE ray_color_hittable(_, _, _, _)
ray_color_hittable(w, ray, depth, tape) ==
    IF IsBase(depth) THEN Leaf(Black, 0)
    ELSE IF ray \in w.list
    THEN LET s == scatter(ray, Head(tape))
         IN  IF s.some
             THEN LET sub == ray_color_hittable(w, s.ray, Bounce(depth), Tail(tape))
                  IN  [color |-> ColorMul(s.attenuation, sub.color),
                       hits |-> sub.hits + 1,
                       scatters |-> sub.scatters + 1,
                       frames |-> sub.frames + 1]
             ELSE [color |-> Black, hits |-> 1, scatters |-> 1, frames |-> 1]
    ELSE Leaf(Sky(ray), 1)

\* Mutant: both match arms call ray_color_bvh.
ray_color_one_arm(wo, ray, depth, tape) ==
    ray_color_bvh(wo.world, ray, depth, tape)

\* HittableListOptions: the variant and the scene it borrows.
ray_color(wo, ray, depth, tape) ==
    IF wo.variant = "HittableList"
    THEN ray_color_hittable(wo.world, ray, depth, tape)
    ELSE ray_color_bvh(wo.world, ray, depth, tape)

(***************************************************************************)
(* State.                                                                  *)
(***************************************************************************)
VARIABLES
    \* Raytracer fields (raytracer.rs 26-33)
    world, image_width, image_height, samples_per_pixel, max_depth,
    \* one render call: where it is, which entry point started it
    pc, entry,
    \* the ProgressBar: its length and position
    bar_len, bar_pos,
    \* render_multithreaded_bvh locals: `bvh`, `world` and `colors`
    bvh, world_option, colors,
    \* the RgbImage / PPM handed back to the caller
    image,
    \* the rayon workers: the pixel closure each one is running
    thr,
    \* the (index, &mut color) items par_iter_mut().enumerate() has handed out
    taken,
    \* thread_rng(): per worker thread, how many values it has produced, and
    \* whether the generators start from fixed seeds
    rng, seeded,
    \* history: per slot, the tasks that wrote it and the (i, j) its colour
    \* was sampled for; the world variants ray_color was called with
    writes, slot_pixel, used,
    \* history kept when the seeds are fixed: the draws each slot's samples
    \* were offered, and the indices each worker processed, in order
    slot_draws, sched,
    \* the renders made so far on this Raytracer and the previous one's result
    run, prev,
    \* one ray_color call followed frame by frame, and one CheckerTexture
    \* with the last color_at call made on it
    shade, texture

rvars == <<world, image_width, image_height, samples_per_pixel, max_depth,
           pc, entry, bar_len, bar_pos, bvh, world_option, colors, image,
           thr, taken, rng, seeded, writes, slot_pixel, used, slot_draws, sched,
           run, prev>>

apart == <<shade, texture>>

Threads == 1..NumThreads

NoWorld == [variant |-> "none", world |-> EmptyWorld]

Idle == [pc |-> "idle", index |-> 0, slot |-> 0, i |-> 0, j |-> 0, s |-> 0,
         pixel_color |-> Black, draws |-> <<>>]

NoImage == [kind |-> "none", width |-> 0, height |-> 0, pixels |-> <<>>]

NoPrev == [entry |-> "none", colors |-> <<>>, slot_draws |-> <<>>,
           sched |-> <<>>]

NoShade == [status |-> "none"]

NoTexture == [status |-> "none"]

\* The state a render call starts from; Raytracer::new accepts every u16.
Fresh ==
    /\ pc = "new"
    /\ entry = "none"
    /\ bar_len = 0
    /\ bar_pos = 0
    /\ bvh = "none"
    /\ world_option = NoWorld
    /\ colors = <<>>
    /\ image = NoImage
    /\ thr = [t \in Threads |-> Idle]
    /\ taken = {}
    /\ rng = [t \in Threads |-> 0]
    /\ writes = <<>>
    /\ slot_pixel = <<>>
    /\ slot_draws = <<>>
    /\ sched = [t \in Threads |-> <<>>]
    /\ used = {}

InitRender ==
    /\ world \in Worlds
    /\ image_width \in 0..MaxWidth
    /\ image_height \in 0..MaxHeight
    /\ samples_per_pixel \in 0..MaxSamples
    /\ max_depth \in 0..MaxDepth
    /\ Fresh
    /\ seeded = FALSE
    /\ run = 1
    /\ prev = NoPrev
    /\ shade = NoShade
    /\ texture = NoTexture

fields == <<world, image_width, image_height, samples_per_pixel, max_depth,
            seeded>>

(***************************************************************************)
(* The entry points: each creates the progress bar, then calls a parallel  *)
(* pixel loop.                                                             *)
(***************************************************************************)
\* raytracer.rs 59: (self.image_height * self.image_width).try_into().unwrap()
BarLenPpm(h, w) == Mul16(h, w)

\* raytracer.rs 79, 105: self.image_height as u64 * self.image_width as u64
BarLen(h, w) == h * w

\* raytracer.rs 136, 172: self.image_height as usize * self.image_width as usize
BufferLen(h, w) == h * w

render_ppm ==
    /\ pc = "new"
    /\ entry' = "render_ppm"
    /\ \E o \in BarLenPpm(image_height, image_width) :
          IF o.panic
          THEN pc' = "panicked" /\ bar_len' = bar_len
          ELSE pc' = "bar" /\ bar_len' = o.v
    /\ UNCHANGED <<fields, apart, bar_pos, bvh, world_option, colors, image, thr,
                   taken, rng, writes, slot_pixel, slot_draws, sched, used,
                   run, prev>>

render ==
    /\ pc = "new"
    /\ entry' = "render"
    /\ pc' = "bar"
    /\ bar_len' = BarLen(image_height, image_width)
    /\ UNCHANGED <<fields, apart, bar_pos, bvh, world_option, colors, image, thr,
                   taken, rng, writes, slot_pixel, slot_draws, sched, used,
                   run, prev>>

render_without_bvh ==
    /\ pc = "new"
    /\ entry' = "render_without_bvh"
    /\ pc' = "bar"
    /\ bar_len' = BarLen(image_height, image_width)
    /\ UNCHANGED <<fields, apart, bar_pos, bvh, world_option, colors, image, thr,
                   taken, rng, writes, slot_pixel, slot_draws, sched, used,
                   run, prev>>

(***************************************************************************)
(* render_multithreaded_bvh, up to the parallel loop (raytracer.rs         *)
(* 126-136), and render_multithreaded_without_bvh (171-172).               *)
(***************************************************************************)
\* Mutant: the tree is built but the raw list is always selected.
SelectWorldList(b, w) == [variant |-> "HittableList", world |-> w]

\* raytracer.rs 130-133
SelectWorld(b, w) ==
    IF b = "Ok" THEN [variant |-> "Bvh", world |-> w]
    ELSE [variant |-> "HittableList", world |-> w]

\* vec![color![0., 0., 0.]; n], indexed from 0 as in the source
NewBuffer(n) == [k \in 0..(n - 1) |-> Black]

Allocate ==
    LET n == BufferLen(image_height, image_width)
    IN  /\ colors' = NewBuffer(n)
        /\ writes' = [k \in 0..(n - 1) |-> <<>>]
        /\ slot_pixel' = [k \in 0..(n - 1) |-> <<>>]
        /\ slot_draws' = [k \in 0..(n - 1) |-> <<>>]

render_multithreaded_bvh ==
    /\ pc = "bar"
    /\ entry \in {"render", "render_ppm"}
    /\ bvh' = BvhNew(world)
    /\ world_option' = SelectWorld(bvh', world)
    /\ Allocate
    /\ pc' = "par"
    /\ UNCHANGED <<fields, apart, entry, bar_len, bar_pos, image, thr, taken, rng,
                   sched, used, run, prev>>

render_multithreaded_without_bvh ==
    /\ pc = "bar"
    /\ entry = "render_without_bvh"
    /\ Allocate
    /\ pc' = "par"
    /\ UNCHANGED <<fields, apart, entry, bar_len, bar_pos, bvh, world_option, image,
                   thr, taken, rng, sched, used, run, prev>>

(***************************************************************************)
(* The pixel closure (raytracer.rs 141-165 and 177-204), run by a rayon    *)
(* worker for one (index, &mut color) item at a time.                      *)
(***************************************************************************)
\* Mutant: an item handed out stays available to the other workers.
TakeNothing(done, k) == done

\* par_iter_mut().enumerate(): item k pairs index k with the slot colors[k],
\* and each item is handed to one closure call.
Take(done, k) == done \cup {k}

\* raytracer.rs 143, 179
PixelI(index, w) == index % w

\* Mutant: the row is not flipped.
PixelJNoFlip(index, h, w) == index \div w

\* raytracer.rs 144, 180
PixelJ(index, h, w) == h - (index \div w) - 1

pixel_begin(t, k) ==
    /\ pc = "par"
    /\ thr[t].pc = "idle"
    /\ k \in DOMAIN colors
    /\ k \notin taken
    /\ taken' = Take(taken, k)
    /\ thr' = [thr EXCEPT ![t] =
                 [pc |-> "loop", index |-> k, slot |-> k,
                  i |-> PixelI(k, image_width),
                  j |-> PixelJ(k, image_height, image_width),
                  s |-> 0, pixel_color |-> Black,
                  draws |-> <<>>]]
    /\ sched' = IF seeded THEN [sched EXCEPT ![t] = Append(@, k)] ELSE sched
    /\ UNCHANGED <<fields, apart, pc, entry, bar_len, bar_pos, bvh, world_option,
                   colors, image, rng, writes, slot_pixel, slot_draws, used,
                   run, prev>>

\* rng.gen::<f32>(): a value of [0, 1), here 0 or 1/2.
Jitter(d) == Fin(d, 2)

\* raytracer.rs 149-150, 185-186: (i as f32 + r) / (self.image_width - 1) as f32
Coord(i, r, size) == FDiv(FAdd(Fin(i, 1), Jitter(r)), Fin(Sub16(size, 1), 1))

\* raytracer.rs 151-152 and 187-191: the colour of one sample.
SampleColor(ent, wo, w, ray, depth, tape) ==
    IF ent = "render_without_bvh"
    THEN ray_color_hittable(w, ray, depth, tape)
    ELSE ray_color(wo, ray, depth, tape)

\* The world variant that sample's ray_color calls run on.
SampleVariant(ent, wo) ==
    IF ent = "render_without_bvh" THEN "HittableList" ELSE wo.variant

Tapes(depth) == [1..depth -> Draws]

\* One iteration of `for _ in 0..self.samples_per_pixel` on worker t, with
\* jitter draws ru, rv and the materials' draws `tape`.
Sample(t, ru, rv, tape) ==
    LET me == thr[t]
        u == Coord(me.i, ru, image_width)
        v == Coord(me.j, rv, image_height)
        res == SampleColor(entry, world_option, world, get_ray(u, v),
                           max_depth, tape)
        consumed == 2 + res.scatters
        offered == <<ru, rv>> \o tape
    IN  /\ pc = "par"
        /\ me.pc = "loop"
        /\ me.s < samples_per_pixel
        /\ thr' = [thr EXCEPT ![t].s = @ + 1,
                              ![t].pixel_color = ColorAdd(@, res.color),
                              ![t].draws = IF seeded THEN @ \o offered ELSE @]
        /\ rng' = [rng EXCEPT ![t] = IF seeded THEN @ + consumed ELSE @]
        /\ used' = used \cup {SampleVariant(entry, world_option)}
        /\ UNCHANGED <<fields, apart, pc, entry, bar_len, bar_pos, bvh, world_option,
                       colors, image, taken, writes, slot_pixel, slot_draws,
                       sched, run, prev>>

\* thread_rng() seeded from the operating system: any value may come next.
pixel_sample(t) ==
    /\ ~seeded
    /\ \E ru \in Draws, rv \in Draws, tape \in Tapes(max_depth) :
          Sample(t, ru, rv, tape)

\* A generator's output is a function of its seed and of how many values it
\* has produced.
Pattern == <<0, 1, 1, 0, 1, 0, 0, 1>>

Stream(seed, n) == Pattern[((3 * seed + n) % Len(Pattern)) + 1]

RECURSIVE SumTo(_, _)
SumTo(f, n) == IF n = 0 THEN 0 ELSE f[n] + SumTo(f, n - 1)

\* Mutant: one generator shared by all the workers.
NextDrawShared(t, produced, n) == Stream(0, SumTo(produced, NumThreads) + n)

\* rand::thread_rng() (raytracer.rs 142, 178): the n-th next value of worker
\* t's own thread-local generator, `produced` being what each has produced.
NextDraw(t, produced, n) == Stream(t, produced[t] + n)

\* The same iteration with every generator started from a fixed seed: the
\* jitter draws come first, the materials' draws follow.
pixel_sample_seeded(t) ==
    /\ seeded
    /\ Sample(t, NextDraw(t, rng, 0), NextDraw(t, rng, 1),
              [m \in 1..max_depth |-> NextDraw(t, rng, m + 1)])

\* raytracer.rs 154-158, 193-197
PostProcess(c, spp) ==
    color(FSqrt(FDiv(c[1], Fin(spp, 1))),
          FSqrt(FDiv(c[2], Fin(spp, 1))),
          FSqrt(FDiv(c[3], Fin(spp, 1))))

pixel_end(t) ==
    LET me == thr[t]
    IN  /\ pc = "par"
        /\ me.pc = "loop"
        /\ me.s = samples_per_pixel
        /\ bar_pos' = bar_pos + 1
        /\ colors' = [colors EXCEPT
                        ![me.slot] = PostProcess(me.pixel_color, samples_per_pixel)]
        /\ writes' = [writes EXCEPT ![me.slot] = Append(@, me.index)]
        /\ slot_pixel' = [slot_pixel EXCEPT ![me.slot] = <<me.i, me.j>>]
        /\ slot_draws' = [slot_draws EXCEPT ![me.slot] = me.draws]
        /\ thr' = [thr EXCEPT ![t] = Idle]
        /\ UNCHANGED <<fields, apart, pc, entry, bar_len, bvh, world_option,
                       image, taken, rng, sched, used, run, prev>>

(***************************************************************************)
(* The parallel loop is joined and the entry point builds its result       *)
(* (raytracer.rs 70, 90-96, 116-122).                                      *)
(***************************************************************************)
\* RgbImage::new(width, height): every pixel zero, placed by no buffer entry.
RgbImageNew(w, h) ==
    [kind |-> "rgb", width |-> w, height |-> h,
     pixels |-> [p \in (0..(w - 1)) \X (0..(h - 1)) |->
                   [from |-> -1, color |-> Black]]]

\* raytracer.rs 92-94: where entry `index` of the buffer is put.
PutAt(index, w) == <<index % w, index \div w>>

\* colors.into_iter().enumerate().for_each(put_pixel), entries k..n-1.
RECURSIVE PutPixels(_, _, _, _)
PutPixels(img, buf, k, n) ==
    IF k >= n THEN img
    ELSE PutPixels(
           [img EXCEPT !.pixels[PutAt(k, img.width)] =
                         [from |-> k, color |-> buf[k]]],
           buf, k + 1, n)

\* PPM::new(colors, width, height)
PpmNew(buf, w, h) == [kind |-> "ppm", width |-> w, height |-> h, pixels |-> buf]

finish ==
    /\ pc = "par"
    /\ taken = DOMAIN colors
    /\ \A t \in Threads : thr[t].pc = "idle"
    /\ pc' = "returned"
    /\ image' = IF entry = "render_ppm"
                THEN PpmNew(colors, image_width, image_height)
                ELSE PutPixels(RgbImageNew(image_width, image_height), colors,
                               0, BufferLen(image_height, image_width))
    /\ UNCHANGED <<fields, apart, entry, bar_len, bar_pos, bvh, world_option, colors,
                   thr, taken, rng, writes, slot_pixel, slot_draws, sched,
                   used, run, prev>>

\* A second render on the same Raytracer, its result kept for comparison; the
\* workers' generators are put back to their seeds.
again ==
    /\ pc = "returned"
    /\ run = 1
    /\ run' = 2
    /\ prev' = [entry |-> entry, colors |-> colors, slot_draws |-> slot_draws,
                sched |-> sched]
    /\ pc' = "new"
    /\ entry' = "none"
    /\ bar_len' = 0
    /\ bar_pos' = 0
    /\ bvh' = "none"
    /\ world_option' = NoWorld
    /\ colors' = <<>>
    /\ image' = NoImage
    /\ thr' = [t \in Threads |-> Idle]
    /\ taken' = {}
    /\ rng' = [t \in Threads |-> 0]
    /\ writes' = <<>>
    /\ slot_pixel' = <<>>
    /\ slot_draws' = <<>>
    /\ sched' = [t \in Threads |-> <<>>]
    /\ used' = {}
    /\ UNCHANGED <<fields, apart>>

Next ==
    \/ render
    \/ render_ppm
    \/ render_without_bvh
    \/ render_multithreaded_bvh
    \/ render_multithreaded_without_bvh
    \/ \E t \in Threads : \E k \in DOMAIN colors : pixel_begin(t, k)
    \/ \E t \in Threads : pixel_sample(t)
    \/ \E t \in Threads : pixel_end(t)
    \/ finish

vars == <<rvars, apart>>

Spec == InitRender /\ [][Next]_vars

(***************************************************************************)
(* Two renders in a row with the workers' generators seeded the same way.  *)
(***************************************************************************)
InitPair ==
    /\ world \in Worlds
    /\ image_width \in 1..MaxWidth
    /\ image_height \in 1..MaxHeight
    /\ image_width * image_height <= PairMaxPixels
    /\ samples_per_pixel \in 1..MaxSamples
    /\ max_depth \in 1..MaxDepth
    /\ Fresh
    /\ seeded = TRUE
    /\ run = 1
    /\ prev = NoPrev
    /\ shade = NoShade
    /\ texture = NoTexture

NextPair ==
    \/ render
    \/ render_without_bvh
    \/ render_multithreaded_bvh
    \/ render_multithreaded_without_bvh
    \/ \E t \in Threads : \E k \in DOMAIN colors : pixel_begin(t, k)
    \/ \E t \in Threads : pixel_sample_seeded(t)
    \/ \E t \in Threads : pixel_end(t)
    \/ finish
    \/ again

SpecPair == InitPair /\ [][NextPair]_vars

(***************************************************************************)
(* One ray_color call followed frame by frame (raytracer.rs 210-255).      *)
(* `shade.stack` holds the live ray_color frames, the innermost last.      *)
(***************************************************************************)
\* The render part of the state while it is not in use.
Parked ==
    /\ world = EmptyWorld
    /\ image_width = 0
    /\ image_height = 0
    /\ samples_per_pixel = 0
    /\ max_depth = 0
    /\ Fresh
    /\ seeded = FALSE
    /\ run = 1
    /\ prev = NoPrev

\* The worlds a ray_color call can be made on: what render_multithreaded_bvh
\* selects, and the raw list render_multithreaded_without_bvh passes.
WorldOptions ==
    {SelectWorld(BvhNew(w), w) : w \in Worlds}
        \cup {[variant |-> "HittableList", world |-> w] : w \in Worlds}

Frame(ray, depth) ==
    [ray |-> ray, depth |-> depth, pc |-> "entry", attenuation |-> Black]

InitShade ==
    /\ Parked
    /\ texture = NoTexture
    /\ \E wo \in WorldOptions, r \in {q \in Rays : q.o = "cam"},
          d \in 0..MaxDepth :
          shade = [status |-> "running", world |-> wo, ray0 |-> r,
                   depth0 |-> d, stack |-> <<Frame(r, d)>>, ret |-> Black,
                   result |-> Black, hits |-> 0, scatters |-> 0, steps |-> 0,
                   tape |-> <<>>]

\* world.hit(ray, 0.001, f32::INFINITY) on the variant ray_color dispatched to
\* (raytracer.rs 215, 233, 249-254)
Hit(wo, ray) ==
    IF wo.variant = "HittableList" THEN ray \in wo.world.list
    ELSE ray \in wo.world.tree

Top == shade.stack[Len(shade.stack)]

AtEntry == shade.status = "running" /\ Top.pc = "entry"

\* The innermost frame returns c to its caller, or to whoever called
\* ray_color when it is the outermost one.
Return(sh, c) ==
    LET rest == SubSeq(sh.stack, 1, Len(sh.stack) - 1)
    IN  IF rest = <<>>
        THEN [sh EXCEPT !.stack = rest, !.status = "done", !.result = c,
                        !.steps = @ + 1]
        ELSE [sh EXCEPT !.stack = rest, !.ret = c, !.steps = @ + 1]

\* raytracer.rs 211-213, 229-231
shade_base ==
    /\ AtEntry
    /\ IsBase(Top.depth)
    /\ shade' = Return(shade, Black)
    /\ UNCHANGED <<rvars, texture>>

\* raytracer.rs 222-224, 240-242
shade_miss ==
    /\ AtEntry
    /\ ~IsBase(Top.depth)
    /\ ~Hit(shade.world, Top.ray)
    /\ shade' = Return([shade EXCEPT !.hits = @ + 1], Sky(Top.ray))
    /\ UNCHANGED <<rvars, texture>>

\* raytracer.rs 219, 237
shade_absorbed ==
    /\ AtEntry
    /\ ~IsBase(Top.depth)
    /\ Hit(shade.world, Top.ray)
    /\ \E d \in Draws :
          /\ ~scatter(Top.ray, d).some
          /\ shade' = Return([shade EXCEPT !.hits = @ + 1,
                                           !.scatters = @ + 1,
                                           !.tape = Append(@, d)], Black)
    /\ UNCHANGED <<rvars, texture>>

\* raytracer.rs 216-217, 234-235: the recursive call
shade_recurse ==
    /\ AtEntry
    /\ ~IsBase(Top.depth)
    /\ Hit(shade.world, Top.ray)
    /\ \E d \in Draws :
          LET s == scatter(Top.ray, d)
              n == Len(shade.stack)
          IN  /\ s.some
              /\ shade' = [shade EXCEPT
                     !.hits = @ + 1,
                     !.scatters = @ + 1,
                     !.tape = Append(@, d),
                     !.steps = @ + 1,
                     !.stack = Append(
                         [@ EXCEPT ![n].pc = "wait",
                                   ![n].attenuation = s.attenuation],
                         Frame(s.ray, Bounce(Top.depth)))]
    /\ UNCHANGED <<rvars, texture>>

\* raytracer.rs 217, 235: `attenuation * <the recursive call's colour>`
shade_unwind ==
    /\ shade.status = "running"
    /\ Top.pc = "wait"
    /\ shade' = Return(shade, ColorMul(Top.attenuation, shade.ret))
    /\ UNCHANGED <<rvars, texture>>

NextShade ==
    \/ shade_base
    \/ shade_miss
    \/ shade_absorbed
    \/ shade_recurse
    \/ shade_unwind

SpecShade == InitShade /\ [][NextShade]_vars

\* The frame-by-frame call and the ray_color operator the renders use agree.
ShadeAgrees ==
    shade.status = "done" =>
        LET pad == [m \in 1..(shade.depth0 + 1) |-> 0]
            res == ray_color(shade.world, shade.ray0, shade.depth0,
                             shade.tape \o pad)
        IN  /\ shade.result = res.color
            /\ shade.hits = res.hits
            /\ shade.scatters = res.scatters

(***************************************************************************)
(* textures.rs: SolidColor, CheckerTexture and Texture::color_at.          *)
(***************************************************************************)
\* A hit point coordinate x = q * pi/20, so that 10x = q * pi/2, or NaN. Only
\* q = 0 and odd q are used: there the sign of f32 sin(10x) is certain.
Coords == {[nan |-> FALSE, q |-> q] : q \in {-3, -1, 0, 1, 3}}
              \cup {[nan |-> TRUE, q |-> 0]}

Points == Coords \X Coords \X Coords

\* (10. * x).sin(): a signed value, or NaN.
Sin10(c) ==
    IF c.nan THEN [nan |-> TRUE, v |-> 0]
    ELSE [nan |-> FALSE,
          v |-> CASE c.q % 4 = 0 -> 0
                  [] c.q % 4 = 1 -> 1
                  [] c.q % 4 = 2 -> 0
                  [] c.q % 4 = 3 -> -1]

SMul(a, b) ==
    IF a.nan \/ b.nan THEN [nan |-> TRUE, v |-> 0]
    ELSE [nan |-> FALSE, v |-> a.v * b.v]

\* textures.rs 55-56
SinProduct(p) == SMul(SMul(Sin10(p[1]), Sin10(p[2])), Sin10(p[3]))

\* Mutant: `sin_product <= 0.`
LeZero(s) == ~s.nan /\ s.v <= 0

\* textures.rs 57: `sin_product < 0.` (false for NaN)
LtZero(s) == ~s.nan /\ s.v < 0

\* textures.rs 57-61: the sub-texture color_at delegates to
CheckerBranch(u, v, p) == IF LtZero(SinProduct(p)) THEN "odd" ELSE "even"

SolidColor(c) == [kind |-> "solid", color |-> c]

\* Some other implementor of the Texture trait, whose colour follows (u, v).
UvTexture == [kind |-> "uv"]

CheckerTexture(even, odd) ==
    [kind |-> "checker", texture_even |-> even, texture_odd |-> odd]

\* Texture::color_at on each implementor (textures.rs 16, 32-34, 54-62)
RECURSIVE color_at(_, _, _, _)
color_at(tex, u, v, p) ==
    CASE tex.kind = "solid" -> tex.color
      [] tex.kind = "uv" -> color(u, v, Zero)
      [] tex.kind = "checker" ->
            IF CheckerBranch(u, v, p) = "odd"
            THEN color_at(tex.texture_odd, u, v, p)
            ELSE color_at(tex.texture_even, u, v, p)

SubTextures ==
    {SolidColor(White), UvTexture,
     CheckerTexture(SolidColor(Black), SolidColor(SkyBlue))}

UVs == {Zero, Half}

\* CheckerTexture::new(&even, &odd)
InitTexture ==
    /\ Parked
    /\ shade = NoShade
    /\ \E e \in SubTextures, o \in SubTextures :
          texture = [status |-> "new", self |-> CheckerTexture(e, o),
                     built |-> CheckerTexture(e, o),
                     u |-> Zero, v |-> Zero, p |-> <<0, 0, 0>>,
                     branch |-> "none", result |-> Black]

\* A call of CheckerTexture::color_at(&self, u, v, hit_point)
checker_color_at ==
    /\ texture.status = "new"
    /\ \E u \in UVs, v \in UVs, p \in Points :
          texture' = [texture EXCEPT
                        !.status = "called", !.u = u, !.v = v, !.p = p,
                        !.branch = CheckerBranch(u, v, p),
                        !.result = color_at(texture.self, u, v, p)]
    /\ UNCHANGED <<rvars, shade>>

NextTexture == checker_color_at

SpecTexture == InitTexture /\ [][NextTexture]_vars

(***************************************************************************)
(* The entry points alone, on u16 image sizes small and large (products    *)
(* kept within the model checker's integers).                              *)
(***************************************************************************)
DimSamples == {0, 1, 255, 256, 257, 300, 400, U16Mod \div 2}

InitDims ==
    /\ world = EmptyWorld
    /\ image_width \in DimSamples
    /\ image_height \in DimSamples
    /\ samples_per_pixel = 1
    /\ max_depth = 1
    /\ Fresh
    /\ seeded = FALSE
    /\ run = 1
    /\ prev = NoPrev
    /\ shade = NoShade
    /\ texture = NoTexture

NextDims ==
    \/ render
    \/ render_ppm
    \/ render_without_bvh

SpecDims == InitDims /\ [][NextDims]_vars

(***************************************************************************)
(* Properties.                                                             *)
(***************************************************************************)
Slots == DOMAIN colors

AllWritten == \A k \in Slots : Len(writes[k]) = 1

FullBuffer == Slots = 0..(image_width * image_height - 1)

\* C1: in render_multithreaded_bvh the world variant is chosen before any
\* pixel is sampled, Bvh exactly when Bvh::new returned Ok and the raw
\* HittableList exactly when it returned BoundingBoxError; every ray_color
\* call of the render runs on that one variant; a failed build is not raised
\* to the caller, and the render returns its full buffer.
C1_WorldChosenOnce ==
    entry \in {"render", "render_ppm"} =>
        /\ pc \in {"new", "bar"} => used = {} /\ world_option = NoWorld
        /\ pc \in {"par", "returned"} =>
              /\ bvh \in {"Ok", "Err"}
              /\ (world_option.variant = "Bvh") <=> (bvh = "Ok")
              /\ (world_option.variant = "HittableList") <=> (bvh = "Err")
              /\ world_option.world = world
              /\ used \subseteq {world_option.variant}
        /\ bvh = "Err" => pc # "panicked"
        /\ pc = "returned" => FullBuffer /\ AllWritten

\* C1 witness: a render of 2 x 2 pixels whose build failed has returned, every
\* sample having run on the raw list.
C1_Witness ==
    /\ pc = "returned"
    /\ entry = "render"
    /\ bvh = "Err"
    /\ used = {"HittableList"}
    /\ image_width = 2 /\ image_height = 2
    /\ AllWritten

\* C2: in both parallel loops, whatever the interleaving of the workers, every
\* slot of the buffer is written at most once and only by the task of its own
\* index, no two running tasks hold the same slot, and when the render returns
\* the buffer has width * height slots, each written exactly once.
C2_SlotsWrittenOnce ==
    /\ \A k \in Slots :
          /\ Len(writes[k]) <= 1
          /\ writes[k] # <<>> => writes[k] = <<k>>
    /\ \A t1 \in Threads, t2 \in Threads :
          (t1 # t2 /\ thr[t1].pc = "loop" /\ thr[t2].pc = "loop")
              => thr[t1].slot # thr[t2].slot
    /\ pc = "returned" => FullBuffer /\ AllWritten

\* C2 witness: a 2 x 2 render has returned after both workers wrote slots.
C2_Witness ==
    /\ pc = "returned"
    /\ image_width = 2 /\ image_height = 2
    /\ AllWritten
    /\ bar_pos = 4

\* C3: the colour stored at index k was sampled for column k mod width and
\* bottom-up row height - 1 - (k div width); k -> (i, j) is a bijection onto
\* [0, width) x [0, height); render() puts entry k at image pixel
\* (k mod width, k div width).
C3_RowMajorTopLeft ==
    /\ \A k \in Slots :
          writes[k] # <<>> =>
              slot_pixel[k] = <<k % image_width,
                                image_height - 1 - (k \div image_width)>>
    /\ pc = "returned" =>
          /\ {slot_pixel[k] : k \in Slots}
                = (0..(image_width - 1)) \X (0..(image_height - 1))
          /\ Cardinality({slot_pixel[k] : k \in Slots}) = Cardinality(Slots)
    /\ (pc = "returned" /\ entry \in {"render", "render_without_bvh"}) =>
          \A k \in Slots :
              image.pixels[<<k % image_width, k \div image_width>>]
                  = [from |-> k, color |-> colors[k]]

\* C3 witness: a 2 x 2 render has returned; slot 0 holds the top-left pixel,
\* sampled for column 0 of the topmost row (j = 1), and slot 3 sits at image
\* pixel (1, 1).
C3_Witness ==
    /\ pc = "returned"
    /\ entry = "render"
    /\ image_width = 2 /\ image_height = 2
    /\ slot_pixel[0] = <<0, 1>>
    /\ image.pixels[<<1, 1>>].from = 3

\* C6: with samples_per_pixel = 0 a finished render holds black in every
\* pixel (nothing is divided by zero), unless the value was rejected and no
\* render finished.
C6_ZeroSamplesBlack ==
    (samples_per_pixel = 0 /\ pc = "returned") =>
        \A k \in Slots : colors[k] = Black

BothRender == run = 2 /\ pc = "returned" /\ entry = "render"
                  /\ prev.entry = "render"

BuildFails == BvhNew(world) = "Err"

FallbackAndForced ==
    /\ run = 2
    /\ pc = "returned"
    /\ BuildFails
    /\ {prev.entry, entry} = {"render", "render_without_bvh"}

\* C8: on a scene whose acceleration build fails, the normal render completes
\* and, for the same jitter offsets and scatter results, gives slot by slot
\* the buffer of the forced linear-scan render.
C8_FallbackEqualsLinearScan ==
    FallbackAndForced =>
        /\ FullBuffer
        /\ DOMAIN prev.colors = Slots
        /\ \A k \in Slots :
              slot_draws[k] = prev.slot_draws[k] => colors[k] = prev.colors[k]

\* C8 witness: both renders of a failing scene are done, every slot was
\* offered the same values in both, and a ray hit the scene (a worker's
\* generator gave more than the jitter values of its pixels).
C8_Witness ==
    /\ FallbackAndForced
    /\ prev.entry = "render"
    /\ Cardinality(Slots) = 2
    /\ slot_draws = prev.slot_draws
    /\ \E t \in Threads : rng[t] > 2 * samples_per_pixel * Len(sched[t])

Running == shade.status = "running"

DepthsDecrease ==
    \A m \in 1..Len(shade.stack) :
        shade.stack[m].depth = shade.depth0 - (m - 1)

\* Some step of the call in progress can be taken.
CanStep ==
    \/ AtEntry /\ IsBase(Top.depth)
    \/ AtEntry /\ ~IsBase(Top.depth) /\ ~Hit(shade.world, Top.ray)
    \/ AtEntry /\ ~IsBase(Top.depth) /\ Hit(shade.world, Top.ray)
          /\ \E d \in Draws : scatter(Top.ray, d).some \in BOOLEAN
    \/ Top.pc = "wait"

\* The call takes a bounded number of steps and is never stuck before it
\* returns.
Terminates ==
    /\ shade.steps <= 2 * shade.depth0 + 1
    /\ Running => CanStep

C5_ZeroDepthBlack ==
    (shade.status # "none" /\ shade.depth0 = 0) =>
        /\ shade.hits = 0
        /\ shade.scatters = 0
        /\ shade.status = "done" => shade.result = Black /\ shade.steps = 1

\* C5 witness: a call with depth 0 on the Bvh variant has returned, for a ray
\* the tree would have reported a hit for.
C5_Witness ==
    /\ shade.status = "done"
    /\ shade.depth0 = 0
    /\ shade.world.variant = "Bvh"
    /\ Hit(shade.world, shade.ray0)

Called == texture.status = "called"

\* C9: CheckerTexture::color_at(u, v, p) is the even sub-texture's
\* color_at(u, v, p) when sin(10x) sin(10y) sin(10z) >= 0, zero included, and
\* the odd one's when it is < 0; the choice is the same for every (u, v); the
\* call leaves both textures as they were built.
C9_CheckerDelegates ==
    Called =>
        LET sp == SinProduct(texture.p)
            me == texture.self
        IN  /\ (~sp.nan /\ sp.v >= 0) =>
                  /\ texture.branch = "even"
                  /\ texture.result
                        = color_at(me.texture_even, texture.u, texture.v, texture.p)
            /\ (~sp.nan /\ sp.v < 0) =>
                  /\ texture.branch = "odd"
                  /\ texture.result
                        = color_at(me.texture_odd, texture.u, texture.v, texture.p)
            /\ \A u \in UVs, v \in UVs :
                  CheckerBranch(u, v, texture.p) = texture.branch
            /\ texture.self = texture.built

\* C9 witness: a call at a point where the product is exactly 0, on a checker
\* whose sub-textures give different colours there, took the even one.
C9_Witness ==
    /\ Called
    /\ SinProduct(texture.p) = [nan |-> FALSE, v |-> 0]
    /\ texture.branch = "even"
    /\ color_at(texture.self.texture_even, texture.u, texture.v, texture.p)
          # color_at(texture.self.texture_odd, texture.u, texture.v, texture.p)

\* C10: for every u16 width and height, render_ppm and render set up the same
\* progress total, width * height, the length of the colour buffer; the u16
\* product of render_ppm neither wraps nor aborts.
C10_SameProgressTotal ==
    entry \in {"render", "render_ppm"} =>
        /\ pc # "panicked"
        /\ bar_len = image_width * image_height
        /\ bar_len = BufferLen(image_height, image_width)

====
